---- MODULE Spec2Model ----
(***************************************************************************)
(* A model of usernamegen.py: the generator function usernamegen, the      *)
(* per-name expression it applies to first and last names, concurrent      *)
(* calls of the generator, and the argparse action that gathers the four   *)
(* named collections for main.                                             *)
(*                                                                         *)
(* A Python str is modelled as a sequence of one-character strings, so ""  *)
(* is << >> and the tuple ('',) is << << >> >>.                            *)
(***************************************************************************)
EXTENDS Integers, Sequences, FiniteSets

VARIABLES parts, gen, calls, cli

vars == <<parts, gen, calls, cli>>

----------------------------------------------------------------------------
(* Bounds of the model. *)

\* Longest raw first name of the per-name specification.
MaxNameLen == 3
\* Largest value of num_first_name_chars and num_last_name_chars.
MaxChars == 2
\* Most entries of first_names and of last_names in one generator call.
MaxNames == 2
\* Most entries of prefixes and of suffixes in one generator call.
MaxAffixes == 1

----------------------------------------------------------------------------
(* Characters and the str methods the generator uses. *)

\* The capital I with dot above, U+0130, as in the first name Ismail written
\* the Turkish way.
CapitalIDot == "<U+0130>"

\* The combining dot above, U+0307, second code point of U+0130 lower-cased.
CombiningDot == "<U+0307>"

\* The line end of the name files.
Newline == "\n"

\* Characters str.strip() removes (str.isspace), as far as names and files
\* hold them.
Whitespace == {" ", Newline}

\* Characters raw names are made of.
NameChars == {" ", "a", "B", "É", "Å", "ä", "Ö", CapitalIDot}

\* The elements an iteration over xs yields.
Range(xs) == {xs[i] : i \in 1..Len(xs)}

Min(a, b) == IF a < b THEN a ELSE b

Max(a, b) == IF a > b THEN a ELSE b

\* s[:n]
Slice(s, n) ==
  IF n >= 0 THEN SubSeq(s, 1, Min(n, Len(s)))
  ELSE SubSeq(s, 1, Max(Len(s) + n, 0))

RECURSIVE LStrip(_)
LStrip(s) ==
  IF s # << >> /\ Head(s) \in Whitespace THEN LStrip(Tail(s)) ELSE s

RECURSIVE RStrip(_)
RStrip(s) ==
  IF s # << >> /\ s[Len(s)] \in Whitespace
  THEN RStrip(SubSeq(s, 1, Len(s) - 1))
  ELSE s

\* str.strip()
Strip(s) == RStrip(LStrip(s))

\* str.lower() of one character: the full Unicode lower-case mapping, which
\* maps U+0130 to the two code points "i" U+0307.
LowerChar(c) ==
  CASE c = "B" -> <<"b">>
    [] c = "D" -> <<"d">>
    [] c = "É" -> <<"é">>
    [] c = "Å" -> <<"å">>
    [] c = "Ä" -> <<"ä">>
    [] c = "Ö" -> <<"ö">>
    [] c = CapitalIDot -> <<"i", CombiningDot>>
    [] OTHER -> <<c>>

RECURSIVE Lower(_)
\* str.lower()
Lower(s) ==
  IF s = << >> THEN << >> ELSE LowerChar(Head(s)) \o Lower(Tail(s))

\* str.replace(old, new) for one-character old and new.
Replace(s, old, new) ==
  [i \in 1..Len(s) |-> IF s[i] = old THEN new ELSE s[i]]

\* str.maketrans('åäö', 'aao')
translation_table == [c \in {"å", "ä", "ö"} |-> IF c = "ö" THEN "o" ELSE "a"]

\* str.translate(table)
Translate(s, table) ==
  [i \in 1..Len(s) |-> IF s[i] \in DOMAIN table THEN table[s[i]] ELSE s[i]]

\* A slip that strips the raw name before it is cut.
NamePartStripFirst(name, num_chars) ==
  Replace(Lower(Slice(Strip(name), num_chars)), "é", "e")

\* A slip that leaves out .replace('é', 'e').
NamePartNoFold(name, num_chars) ==
  Lower(Strip(Slice(name, num_chars)))

\* name[:num_chars].strip().lower().replace('é', 'e')
NamePart(name, num_chars) ==
  Replace(Lower(Strip(Slice(name, num_chars))), "é", "e")

\* A slip that ignores permit_aao.
TranslatedAlways(part, permit_aao) ==
  Translate(part, translation_table)

\* if not permit_aao: part = part.translate(translation_table)
Translated(part, permit_aao) ==
  IF ~permit_aao THEN Translate(part, translation_table) ELSE part

----------------------------------------------------------------------------
(* The per-name expression, lines 51 to 56, on one first and one last name. *)

RECURSIVE SeqsUpTo(_, _)
\* Every sequence of at most n elements of the set elems: the strings of at
\* most n characters, the lists of at most n names.
SeqsUpTo(elems, n) ==
  IF n = 0 THEN {<< >>}
  ELSE LET shorter == SeqsUpTo(elems, n - 1)
       IN  shorter \cup {<<e>> \o s : e \in elems, s \in {t \in shorter : Len(t) = n - 1}}

Names == SeqsUpTo(NameChars, MaxNameLen)

\* Raw last names of the per-name specification.
PartLastNames == {<<"ä", " ">>, <<" ", "É", "B">>}

NumChars == 0..MaxChars

\* What the state of a part of the program is that a specification leaves out.
GenIdle == [pc |-> "idle"]

CallsIdle == [pc |-> "idle"]

CliIdle == [pc |-> "idle"]

PartsIdle ==
  [first_name |-> << >>, last_name |-> << >>, num_first_name_chars |-> 0,
   num_last_name_chars |-> 0, permit_aao |-> FALSE,
   first_name_part |-> << >>, last_name_part |-> << >>, pc |-> "idle"]

PartsInit ==
  /\ parts \in [first_name : Names, last_name : PartLastNames,
                num_first_name_chars : NumChars, num_last_name_chars : NumChars,
                permit_aao : BOOLEAN,
                first_name_part : {<< >>}, last_name_part : {<< >>},
                pc : {"start"}]
  /\ gen = GenIdle
  /\ calls = CallsIdle
  /\ cli = CliIdle

\* Lines 51 and 52.
ExtractParts ==
  /\ parts.pc = "start"
  /\ parts' = [parts EXCEPT
       !.first_name_part = NamePart(parts.first_name, parts.num_first_name_chars),
       !.last_name_part = NamePart(parts.last_name, parts.num_last_name_chars),
       !.pc = "extracted"]
  /\ UNCHANGED <<gen, calls, cli>>

\* Lines 54 to 56.
TranslateParts ==
  /\ parts.pc = "extracted"
  /\ parts' = [parts EXCEPT
       !.first_name_part = Translated(parts.first_name_part, parts.permit_aao),
       !.last_name_part = Translated(parts.last_name_part, parts.permit_aao),
       !.pc = "done"]
  /\ UNCHANGED <<gen, calls, cli>>

PartsNext == ExtractParts \/ TranslateParts

----------------------------------------------------------------------------
(* What the claims about the name parts are stated with. *)

\* The number of characters of s that are in the set chars.
Count(s, chars) == Cardinality({i \in 1..Len(s) : s[i] \in chars})

\* What one raw character becomes in a name part.
RefChar(c, permit_aao) ==
  CASE c \in {"B", "b"} -> <<"b">>
    [] c \in {"É", "é", "e"} -> <<"e">>
    [] c \in {"Å", "å"} -> IF permit_aao THEN <<"å">> ELSE <<"a">>
    [] c \in {"Ä", "ä"} -> IF permit_aao THEN <<"ä">> ELSE <<"a">>
    [] c \in {"Ö", "ö"} -> IF permit_aao THEN <<"ö">> ELSE <<"o">>
    [] c = CapitalIDot -> <<"i", CombiningDot>>
    [] OTHER -> <<c>>

RECURSIVE RefChars(_, _, _, _)
\* The characters lo..hi of s, each as RefChar leaves it.
RefChars(s, lo, hi, permit_aao) ==
  IF lo > hi THEN << >>
  ELSE RefChar(s[lo], permit_aao) \o RefChars(s, lo + 1, hi, permit_aao)

\* The part of a raw name under truncation length n: of its leading
\* min(n, length) characters, those from the first to the last one that is
\* no whitespace, each as RefChar leaves it.
RefPart(name, n, permit_aao) ==
  LET m == IF n < Len(name) THEN n ELSE Len(name)
      black == {i \in 1..m : name[i] \notin Whitespace}
  IN  IF black = {} THEN << >>
      ELSE RefChars(name,
                    CHOOSE i \in black : \A j \in black : i <= j,
                    CHOOSE i \in black : \A j \in black : i >= j,
                    permit_aao)

NoOuterWhitespace(s) ==
  s = << >> \/ (s[1] \notin Whitespace /\ s[Len(s)] \notin Whitespace)

\* Everything claim C4 says of one part but its bound on the length.
PartIsOfLeadingChars(name, n, part, permit_aao) ==
  /\ part = RefPart(name, n, permit_aao)
  /\ NoOuterWhitespace(part)
  /\ Len(name) <= n => part = RefPart(name, Len(name), permit_aao)
  /\ n = 0 => part = << >>
  /\ (\A i \in 1..Min(n, Len(name)) : name[i] \in Whitespace) => part = << >>

PartsDone == parts.pc = "done"

\* C4 as stated: each part is computed from the leading min(n, length)
\* characters of its raw name only, stripped and lower-cased after the cut,
\* the first-name part under num_first_name_chars and the last-name part
\* under num_last_name_chars, and no part has more than n characters.
C4_PartAtMostNChars ==
  PartsDone =>
    /\ PartIsOfLeadingChars(parts.first_name, parts.num_first_name_chars,
                            parts.first_name_part, parts.permit_aao)
    /\ PartIsOfLeadingChars(parts.last_name, parts.num_last_name_chars,
                            parts.last_name_part, parts.permit_aao)
    /\ Len(parts.first_name_part) <= parts.num_first_name_chars
    /\ Len(parts.last_name_part) <= parts.num_last_name_chars

\* C4 as amended: each part is computed from the leading min(n, length)
\* characters of its raw name only, stripped and lower-cased after the cut,
\* the first-name part under num_first_name_chars and the last-name part
\* under num_last_name_chars, and a part has at most n characters plus one
\* for every capital I with dot above (U+0130) among those leading
\* characters, which str.lower() turns into two code points.
C4_PartOfLeadingChars ==
  PartsDone =>
    /\ PartIsOfLeadingChars(parts.first_name, parts.num_first_name_chars,
                            parts.first_name_part, parts.permit_aao)
    /\ PartIsOfLeadingChars(parts.last_name, parts.num_last_name_chars,
                            parts.last_name_part, parts.permit_aao)
    /\ Len(parts.first_name_part) <= parts.num_first_name_chars
         + Count(Slice(parts.first_name, parts.num_first_name_chars), {CapitalIDot})
    /\ Len(parts.last_name_part) <= parts.num_last_name_chars
         + Count(Slice(parts.last_name, parts.num_last_name_chars), {CapitalIDot})

\* A name cut inside, with leading whitespace that counts against the
\* length, beside a last name cut at another length.
C4_Witness ==
  /\ PartsDone
  /\ parts.first_name = <<" ", "B", "a">>
  /\ parts.num_first_name_chars = 2
  /\ parts.first_name_part = <<"b">>
  /\ parts.last_name = <<" ", "É", "B">>
  /\ parts.num_last_name_chars = 1
  /\ parts.last_name_part = << >>

AaoLower == {"å", "ä", "ö"}

\* How often the part of a name holds the characters into, given that the
\* leading n characters of the name hold the characters from.
SameCount(name, n, part, from, into) ==
  Count(part, into) = Count(Slice(name, n), from)

\* C5: without permit_aao every å, ä, ö of a part (upper case too) is
\* replaced by a, a, o and no part holds å, ä or ö; with permit_aao they are
\* kept, lower-cased.
C5_AaoTransliterated ==
  PartsDone =>
    /\ ~parts.permit_aao =>
         /\ Count(parts.first_name_part, AaoLower) = 0
         /\ Count(parts.last_name_part, AaoLower) = 0
         /\ SameCount(parts.first_name, parts.num_first_name_chars,
                      parts.first_name_part, {"a", "Å", "å", "Ä", "ä"}, {"a"})
         /\ SameCount(parts.first_name, parts.num_first_name_chars,
                      parts.first_name_part, {"o", "Ö", "ö"}, {"o"})
         /\ SameCount(parts.last_name, parts.num_last_name_chars,
                      parts.last_name_part, {"a", "Å", "å", "Ä", "ä"}, {"a"})
    /\ parts.permit_aao =>
         /\ \A pair \in {<<"å", "Å">>, <<"ä", "Ä">>, <<"ö", "Ö">>} :
              /\ SameCount(parts.first_name, parts.num_first_name_chars,
                           parts.first_name_part, {pair[1], pair[2]}, {pair[1]})
              /\ SameCount(parts.last_name, parts.num_last_name_chars,
                           parts.last_name_part, {pair[1], pair[2]}, {pair[1]})
         /\ SameCount(parts.first_name, parts.num_first_name_chars,
                      parts.first_name_part, {"a"}, {"a"})

\* "Åä" becomes "aa" without permit_aao.
C5_Witness ==
  /\ PartsDone
  /\ ~parts.permit_aao
  /\ parts.first_name = <<"Å", "ä", "Ö">>
  /\ parts.num_first_name_chars = 2
  /\ parts.first_name_part = <<"a", "a">>
  /\ parts.last_name_part = <<"a">>

\* C6: for both values of permit_aao every é and É among the leading
\* characters of a name is an e in its part, and no part holds é.
C6_EAcuteFolded ==
  PartsDone =>
    /\ Count(parts.first_name_part, {"é"}) = 0
    /\ Count(parts.last_name_part, {"é"}) = 0
    /\ SameCount(parts.first_name, parts.num_first_name_chars,
                 parts.first_name_part, {"e", "é", "É"}, {"e"})
    /\ SameCount(parts.last_name, parts.num_last_name_chars,
                 parts.last_name_part, {"e", "é", "É"}, {"e"})

\* "É" is folded to "e" although permit_aao keeps "å".
C6_Witness ==
  /\ PartsDone
  /\ parts.permit_aao
  /\ parts.first_name = <<"É", "Å">>
  /\ parts.num_first_name_chars = 2
  /\ parts.first_name_part = <<"e", "å">>
  /\ parts.last_name = <<" ", "É", "B">>
  /\ parts.num_last_name_chars = 2
  /\ parts.last_name_part = <<"e">>

----------------------------------------------------------------------------
(* The generator, lines 13 to 61. *)

\* A slip that leaves out "or ('',)".
OrEmptyStringLeftOut(xs) == xs

\* xs or ('',)
OrEmptyString(xs) == IF Len(xs) = 0 THEN << << >> >> ELSE xs

\* itertools.product(prefixes, first_names, last_names, suffixes): the tuples
\* in its order, the last axis running fastest.
Product(prefixes, first_names, last_names, suffixes) ==
  LET ns == Len(suffixes)
      nl == Len(last_names)
      nf == Len(first_names)
  IN  [k \in 1..(Len(prefixes) * nf * nl * ns) |->
        <<prefixes[((k - 1) \div (ns * nl * nf)) + 1],
          first_names[(((k - 1) \div (ns * nl)) % nf) + 1],
          last_names[(((k - 1) \div ns) % nl) + 1],
          suffixes[((k - 1) % ns) + 1]>>]

\* A slip that assigns the username instead of adding it.
LoopBodyAssigns(user_names, tuple, num_first_name_chars, num_last_name_chars, permit_aao) ==
  LET first_name_part == Translated(NamePart(tuple[2], num_first_name_chars), permit_aao)
      last_name_part == Translated(NamePart(tuple[3], num_last_name_chars), permit_aao)
      username == tuple[1] \o first_name_part \o last_name_part \o tuple[4]
  IN  IF username # << >> THEN {username} ELSE user_names

\* A slip that adds the username without looking at it.
LoopBodyAddsEmpty(user_names, tuple, num_first_name_chars, num_last_name_chars, permit_aao) ==
  LET first_name_part == Translated(NamePart(tuple[2], num_first_name_chars), permit_aao)
      last_name_part == Translated(NamePart(tuple[3], num_last_name_chars), permit_aao)
      username == tuple[1] \o first_name_part \o last_name_part \o tuple[4]
  IN  user_names \cup {username}

\* A slip that lower-cases the whole username.
LoopBodyLowersAll(user_names, tuple, num_first_name_chars, num_last_name_chars, permit_aao) ==
  LET first_name_part == Translated(NamePart(tuple[2], num_first_name_chars), permit_aao)
      last_name_part == Translated(NamePart(tuple[3], num_last_name_chars), permit_aao)
      username == Lower(tuple[1] \o first_name_part \o last_name_part \o tuple[4])
  IN  IF username # << >> THEN user_names \cup {username} ELSE user_names

\* The body of the for loop, lines 51 to 59, on the tuple
\* (prefix, first_name, last_name, suffix): user_names after it.
LoopBody(user_names, tuple, num_first_name_chars, num_last_name_chars, permit_aao) ==
  LET first_name_part == Translated(NamePart(tuple[2], num_first_name_chars), permit_aao)
      last_name_part == Translated(NamePart(tuple[3], num_last_name_chars), permit_aao)
      username == tuple[1] \o first_name_part \o last_name_part \o tuple[4]
  IN  IF username # << >> THEN user_names \cup {username} ELSE user_names

RECURSIVE ForLoop(_, _, _, _, _)
\* The for loop, line 49, over the tuples the product has yet to yield.
ForLoop(tuples, user_names, num_first_name_chars, num_last_name_chars, permit_aao) ==
  IF tuples = << >> THEN user_names
  ELSE ForLoop(Tail(tuples),
               LoopBody(user_names, Head(tuples), num_first_name_chars,
                        num_last_name_chars, permit_aao),
               num_first_name_chars, num_last_name_chars, permit_aao)

\* One call of usernamegen, run alone: the set it returns.
usernamegen(first_names, last_names, prefixes, suffixes, num_first_name_chars, num_last_name_chars, permit_aao) ==
  ForLoop(Product(OrEmptyString(prefixes), OrEmptyString(first_names),
                  OrEmptyString(last_names), OrEmptyString(suffixes)),
          {}, num_first_name_chars, num_last_name_chars, permit_aao)

\* Raw names and affixes the generator is called with.
FirstNamePool == {<<" ", " ", "B">>, <<"b", "Å", "B">>}

LastNamePool == {<< >>, <<"å", "É", "a">>}

PrefixPool == {<< >>, <<"É", " ">>}

SuffixPool == {<< >>, <<" ", "Ö">>}

\* The truncation lengths the generator is called with: none and the largest.
GenNumChars == {0, MaxChars}

GenInit ==
  /\ gen \in [first_names : SeqsUpTo(FirstNamePool, MaxNames),
              last_names : SeqsUpTo(LastNamePool, MaxNames),
              prefixes : SeqsUpTo(PrefixPool, MaxAffixes),
              suffixes : SeqsUpTo(SuffixPool, MaxAffixes),
              num_first_name_chars : GenNumChars, num_last_name_chars : GenNumChars,
              permit_aao : BOOLEAN, user_names : {{}}, pc : {"called"}]
  /\ parts = PartsIdle
  /\ calls = CallsIdle
  /\ cli = CliIdle

\* A call of usernamegen from its entry to its return.
Generate ==
  /\ gen.pc = "called"
  /\ gen' = [gen EXCEPT
       !.user_names = usernamegen(gen.first_names, gen.last_names, gen.prefixes,
                                  gen.suffixes, gen.num_first_name_chars,
                                  gen.num_last_name_chars, gen.permit_aao),
       !.pc = "returned"]
  /\ UNCHANGED <<parts, calls, cli>>

GenNext == Generate

----------------------------------------------------------------------------
(* What the claims about one call of the generator are stated with. *)

\* The elements of an axis after the empty-sequence substitution.
RefAxis(xs) == IF xs = << >> THEN {<< >>} ELSE Range(xs)

\* prefix + T(first_name) + T(last_name) + suffix of the call in gen.
RefCandidate(prefix, first_name, last_name, suffix) ==
  prefix \o RefPart(first_name, gen.num_first_name_chars, gen.permit_aao)
         \o RefPart(last_name, gen.num_last_name_chars, gen.permit_aao)
         \o suffix

RefCandidates ==
  {RefCandidate(p, f, l, s) : p \in RefAxis(gen.prefixes), f \in RefAxis(gen.first_names),
                              l \in RefAxis(gen.last_names), s \in RefAxis(gen.suffixes)}

Returned == gen.pc = "returned"

\* C1: the returned set is exactly the set of the non-empty candidates
\* prefix + T(first name) + T(last name) + suffix over the cartesian product
\* of the four axes after the empty-sequence substitution.
C1_ExactlyNonEmptyCandidates ==
  Returned => gen.user_names = {c \in RefCandidates : c # << >>}

\* Two first names, one of them whitespace once cut, two last names and a
\* suffix give four usernames.
C1_Witness ==
  /\ Returned
  /\ gen.first_names = <<<<" ", " ", "B">>, <<"b", "Å", "B">>>>
  /\ gen.last_names = <<<<"å", "É", "a">>, << >>>>
  /\ gen.prefixes = << >>
  /\ gen.suffixes = <<<<" ", "Ö">>>>
  /\ gen.num_first_name_chars = 2
  /\ gen.num_last_name_chars = 2
  /\ ~gen.permit_aao
  /\ gen.user_names = {<<"a", "e", " ", "Ö">>, <<" ", "Ö">>,
                       <<"b", "a", "a", "e", " ", "Ö">>, <<"b", "a", " ", "Ö">>}

\* An axis with its empty sequence replaced by the one-element sequence [""].
WithEmptyString(xs) == IF xs = << >> THEN << << >> >> ELSE xs

\* C2: a call with an empty axis returns what the call with that axis
\* replaced by [""] returns, so generate([], ["Doe"], [], [], 3, 3, false)
\* is {"doe"}.
C2_EmptyAxisIsEmptyString ==
  /\ Returned =>
       /\ gen.user_names =
            usernamegen(WithEmptyString(gen.first_names), WithEmptyString(gen.last_names),
                        WithEmptyString(gen.prefixes), WithEmptyString(gen.suffixes),
                        gen.num_first_name_chars, gen.num_last_name_chars,
                        gen.permit_aao)
       /\ (\E c \in RefCandidates : c # << >>) => gen.user_names # {}
  /\ usernamegen(<< >>, <<<<"D", "o", "e">>>>, << >>, << >>, 3, 3, FALSE)
       = {<<"d", "o", "e">>}

\* Only last names are given and usernames come out all the same.
C2_Witness ==
  /\ Returned
  /\ gen.first_names = << >>
  /\ gen.prefixes = << >>
  /\ gen.suffixes = << >>
  /\ gen.last_names = <<<<"å", "É", "a">>>>
  /\ gen.num_last_name_chars = 2
  /\ gen.permit_aao
  /\ gen.user_names = {<<"å", "e">>}

\* C3: the empty string is never in the returned set, and the set is empty
\* when every candidate is the empty string.
C3_NeverEmptyString ==
  Returned =>
    /\ << >> \notin gen.user_names
    /\ RefCandidates = {<< >>} => gen.user_names = {}

\* A first name that is whitespace once cut, an empty last name and prefix.
C3_Witness ==
  /\ Returned
  /\ gen.first_names = <<<<" ", " ", "B">>>>
  /\ gen.num_first_name_chars = 2
  /\ gen.last_names = <<<< >>>>
  /\ gen.num_last_name_chars = 2
  /\ gen.prefixes = <<<< >>>>
  /\ gen.suffixes = << >>
  /\ gen.user_names = {}

\* The tuples of the cartesian product, by position in each axis.
RefTuples ==
  (1..Len(gen.prefixes)) \X (1..Len(gen.first_names))
    \X (1..Len(gen.last_names)) \X (1..Len(gen.suffixes))

RefCandidateAt(t) ==
  RefCandidate(gen.prefixes[t[1]], gen.first_names[t[2]],
               gen.last_names[t[3]], gen.suffixes[t[4]])

NoTwoTuplesCollide ==
  \A t1, t2 \in RefTuples : t1 # t2 => RefCandidateAt(t1) # RefCandidateAt(t2)

AllAxesNonEmpty ==
  /\ gen.first_names # << >>
  /\ gen.last_names # << >>
  /\ gen.prefixes # << >>
  /\ gen.suffixes # << >>

\* C7 as stated: with four non-empty axes the returned set has at most
\* |prefixes| x |firstNames| x |lastNames| x |suffixes| elements, and exactly
\* that many when no two tuples yield the same candidate.
C7_SizeIsProductUnlessCollision ==
  (Returned /\ AllAxesNonEmpty) =>
    /\ Cardinality(gen.user_names) <= Cardinality(RefTuples)
    /\ NoTwoTuplesCollide => Cardinality(gen.user_names) = Cardinality(RefTuples)

\* C7 as amended: with four non-empty axes the returned set has at most
\* |prefixes| x |firstNames| x |lastNames| x |suffixes| elements, and exactly
\* that many when no two tuples yield the same candidate and no tuple yields
\* the empty string.
C7_SizeIsProductUnlessCollisionOrEmpty ==
  (Returned /\ AllAxesNonEmpty) =>
    /\ Cardinality(gen.user_names) <= Cardinality(RefTuples)
    /\ (NoTwoTuplesCollide /\ \A t \in RefTuples : RefCandidateAt(t) # << >>)
         => Cardinality(gen.user_names) = Cardinality(RefTuples)

\* Four tuples, four different usernames.
C7_Witness ==
  /\ Returned
  /\ AllAxesNonEmpty
  /\ Cardinality(RefTuples) = 4
  /\ NoTwoTuplesCollide
  /\ \A t \in RefTuples : RefCandidateAt(t) # << >>
  /\ Cardinality(gen.user_names) = 4

IsPrefixOf(p, u) == Len(p) <= Len(u) /\ SubSeq(u, 1, Len(p)) = p

IsSuffixOf(s, u) == Len(s) <= Len(u) /\ SubSeq(u, Len(u) - Len(s) + 1, Len(u)) = s

\* C9: every returned username begins with one of the prefixes and ends
\* with one of the suffixes exactly as supplied, the two not overlapping,
\* for both values of permit_aao and every truncation length.
C9_AffixesVerbatim ==
  Returned =>
    \A u \in gen.user_names :
      \E p \in RefAxis(gen.prefixes), s \in RefAxis(gen.suffixes) :
        /\ IsPrefixOf(p, u)
        /\ IsSuffixOf(s, u)
        /\ Len(p) + Len(s) <= Len(u)

\* An upper-case, accented prefix with trailing whitespace and a suffix with
\* leading whitespace, around a lower-cased name.
C9_Witness ==
  /\ Returned
  /\ gen.prefixes = <<<<"É", " ">>>>
  /\ gen.suffixes = <<<<" ", "Ö">>>>
  /\ gen.num_first_name_chars = 2
  /\ gen.num_last_name_chars = 0
  /\ ~gen.permit_aao
  /\ <<"É", " ", "b", "a", " ", "Ö">> \in gen.user_names

----------------------------------------------------------------------------
(* Calls of usernamegen that run at the same time, each stepping through   *)
(* its own for loop.                                                       *)

Callers == {"caller1", "caller2"}

\* The arguments the concurrent callers choose among; the sequences are
\* shared between the callers and only read.
CallArgs ==
  [first_names : {<< >>, <<<<" ", "B">>, <<"b", "Å">>>>},
   last_names : {<<<<"å", "É">>>>, <<<< >>, <<"å", "É">>>>},
   prefixes : {<< >>},
   suffixes : {<< >>, <<<<" ", "Ö">>>>},
   num_first_name_chars : {2},
   num_last_name_chars : {1},
   permit_aao : BOOLEAN]

NoArgs == [first_names |-> << >>, last_names |-> << >>, prefixes |-> << >>,
           suffixes |-> << >>, num_first_name_chars |-> 0,
           num_last_name_chars |-> 0, permit_aao |-> FALSE]

NotCalled == [pc |-> "idle", args |-> NoArgs, tuples |-> << >>, user_names |-> {}]

CallsInit ==
  /\ calls = [c \in Callers |-> NotCalled]
  /\ parts = PartsIdle
  /\ gen = GenIdle
  /\ cli = CliIdle

\* A slip that keeps one set for all calls (a module-level set, a mutable
\* default argument) in place of a set per call.
UserNamesOfAllCalls == UNION {calls[c].user_names : c \in Callers}

\* user_names: Set[str] = set()
NewUserNames == {}

\* Lines 40 to 49: the call binds its arguments, makes its set and the
\* iterator of the product.
Call(c) ==
  /\ calls[c].pc = "idle"
  /\ \E a \in CallArgs :
       calls' = [calls EXCEPT ![c] =
         [pc |-> "loop", args |-> a,
          tuples |-> Product(OrEmptyString(a.prefixes), OrEmptyString(a.first_names),
                             OrEmptyString(a.last_names), OrEmptyString(a.suffixes)),
          user_names |-> NewUserNames]]
  /\ UNCHANGED <<parts, gen, cli>>

\* Lines 49 to 59: one iteration of the for loop.
Iterate(c) ==
  /\ calls[c].pc = "loop"
  /\ calls[c].tuples # << >>
  /\ calls' = [calls EXCEPT
       ![c].user_names = LoopBody(calls[c].user_names, Head(calls[c].tuples),
                                  calls[c].args.num_first_name_chars,
                                  calls[c].args.num_last_name_chars,
                                  calls[c].args.permit_aao),
       ![c].tuples = Tail(calls[c].tuples)]
  /\ UNCHANGED <<parts, gen, cli>>

\* Line 61, the product exhausted.
Return(c) ==
  /\ calls[c].pc = "loop"
  /\ calls[c].tuples = << >>
  /\ calls' = [calls EXCEPT ![c].pc = "returned"]
  /\ UNCHANGED <<parts, gen, cli>>

\* The caller takes the returned set and is free to call again.
CallAgain(c) ==
  /\ calls[c].pc = "returned"
  /\ calls' = [calls EXCEPT ![c] = NotCalled]
  /\ UNCHANGED <<parts, gen, cli>>

CallsNext == \E c \in Callers : Call(c) \/ Iterate(c) \/ Return(c) \/ CallAgain(c)

\* The set a call with the arguments a returns when it runs alone.
Isolated(a) ==
  usernamegen(a.first_names, a.last_names, a.prefixes, a.suffixes,
              a.num_first_name_chars, a.num_last_name_chars, a.permit_aao)

\* C8: a call returns the set the same call returns when run alone, whatever
\* other calls run at the same time or ran before, and two calls with the
\* same arguments return equal sets.
C8_CallsDoNotInterfere ==
  /\ \A c \in Callers :
       calls[c].pc = "returned" => calls[c].user_names = Isolated(calls[c].args)
  /\ \A c1, c2 \in Callers :
       (/\ calls[c1].pc = "returned"
        /\ calls[c2].pc = "returned"
        /\ calls[c1].args = calls[c2].args)
         => calls[c1].user_names = calls[c2].user_names

\* One call has returned three usernames while another, on other arguments,
\* is in the middle of its loop with a username of its own.
C8_Witness ==
  /\ calls["caller1"].pc = "returned"
  /\ Cardinality(calls["caller1"].user_names) = 3
  /\ calls["caller2"].pc = "loop"
  /\ calls["caller2"].args # calls["caller1"].args
  /\ calls["caller2"].tuples # << >>
  /\ calls["caller2"].user_names # {}
  /\ ~(calls["caller2"].user_names \subseteq calls["caller1"].user_names)

----------------------------------------------------------------------------
(* The command line: the actions of make_action_class, lines 65 to 105,    *)
(* the arguments of get_parser that use them, and main.                    *)

\* Most occurrences of the eight collecting flags on one command line.
MaxOccurrences == 3

None == "None"

\* default=3 of --num-first-name-chars and --num-last-name-chars.
DefaultNumChars == 3

\* The collecting arguments of get_parser, lines 151 to 225: dest, the
\* collection of the action class, and whether type is a FileType.
CollectingArguments ==
  {[dest |-> "first_names_files", collection_name |-> "all_first_names", file |-> TRUE],
   [dest |-> "first_names", collection_name |-> "all_first_names", file |-> FALSE],
   [dest |-> "last_names_files", collection_name |-> "all_last_names", file |-> TRUE],
   [dest |-> "last_names", collection_name |-> "all_last_names", file |-> FALSE],
   [dest |-> "prefixes_files", collection_name |-> "all_prefixes", file |-> TRUE],
   [dest |-> "prefixes", collection_name |-> "all_prefixes", file |-> FALSE],
   [dest |-> "suffixes_files", collection_name |-> "all_suffixes", file |-> TRUE],
   [dest |-> "suffixes", collection_name |-> "all_suffixes", file |-> FALSE]}

CollectionNames == {a.collection_name : a \in CollectingArguments}

\* The namespace parse_args starts from: every dest at its default.
NamespaceAtStart ==
  [n \in {a.dest : a \in CollectingArguments}
         \cup {"num_first_name_chars", "num_last_name_chars", "permit_aao"} |->
     CASE n \in {"num_first_name_chars", "num_last_name_chars"} -> DefaultNumChars
       [] n = "permit_aao" -> FALSE
       [] OTHER -> None]

\* The values of one occurrence of an inline flag (nargs='+').
InlineValues == {<<<<" ", "B">>>>, <<<<"b", "Å">>, <<"å", "É">>>>}

\* The texts of the files of one occurrence of a files flag (nargs='+'):
\* one file with empty lines, or two files, the last line of the second
\* without a line end.
FileTexts ==
  {<<<<Newline, Newline, "b", "Å", Newline>>>>,
   <<<<" ", "B", " ", Newline>>, <<"b", "Å">>>>}

\* The bundled lists of first and of last names, read by main when the
\* command line names none.
DefaultFirstNames == {<<"B", "a">>, <<"Å", "B">>}

DefaultLastNames == {<<"É", "a">>}

RECURSIVE SplitLines(_)
\* str.splitlines(), the line ends being "\n": the last line needs none.
SplitLines(text) ==
  IF text = << >> THEN << >>
  ELSE LET ends == {i \in 1..Len(text) : text[i] = Newline}
       IN  IF ends = {} THEN <<text>>
           ELSE LET e == CHOOSE i \in ends : \A j \in ends : i <= j
                IN  <<SubSeq(text, 1, e - 1)>> \o SplitLines(SubSeq(text, e + 1, Len(text)))

\* getattr(namespace, name, default)
GetAttr(namespace, name, default) ==
  IF name \in DOMAIN namespace THEN namespace[name] ELSE default

\* setattr(namespace, name, value)
SetAttr(namespace, name, value) ==
  [n \in DOMAIN namespace \cup {name} |-> IF n = name THEN value ELSE namespace[n]]

\* Lines 88 to 96: the values an occurrence adds.
ValuesToBeAdded(file, values) ==
  IF file
  THEN {Strip(value) :
          value \in UNION {Range(SplitLines(value_file)) : value_file \in Range(values)}}
  ELSE Range(values)

\* A slip that starts from the values of this occurrence alone.
CollectedSetOverwritten(namespace, collection_name, file, values) ==
  ValuesToBeAdded(file, values)

\* Lines 86 to 98: collected_set after the update.
CollectedSet(namespace, collection_name, file, values) ==
  GetAttr(namespace, collection_name, {}) \cup ValuesToBeAdded(file, values)

CliInit ==
  /\ cli = [pc |-> "parsing", argv |-> << >>, namespace |-> NamespaceAtStart,
            passed |-> None, usernames |-> {}]
  /\ parts = PartsIdle
  /\ gen = GenIdle
  /\ calls = CallsIdle

\* Lines 78 to 101: argparse calls the action of one occurrence of a
\* collecting flag.
ActionCall ==
  /\ cli.pc = "parsing"
  /\ Len(cli.argv) < MaxOccurrences
  /\ \E self \in CollectingArguments :
       \E values \in (IF self.file THEN FileTexts ELSE InlineValues) :
         cli' = [cli EXCEPT
           !.argv = Append(cli.argv, [dest |-> self.dest, values |-> values]),
           !.namespace =
              SetAttr(SetAttr(cli.namespace, self.dest, values),
                      self.collection_name,
                      CollectedSet(cli.namespace, self.collection_name,
                                   self.file, values))]
  /\ UNCHANGED <<parts, gen, calls>>

RECURSIVE SetToSeq(_)
\* The elements of a set in an order of iteration.
SetToSeq(set) ==
  IF set = {} THEN << >>
  ELSE LET x == CHOOSE x \in set : TRUE IN <<x>> \o SetToSeq(set \ {x})

\* Lines 243 to 259: main reads the collections and calls usernamegen.
Main ==
  /\ cli.pc = "parsing"
  /\ LET args == cli.namespace
         passed ==
           [first_names |-> GetAttr(args, "all_first_names", DefaultFirstNames),
            last_names |-> GetAttr(args, "all_last_names", DefaultLastNames),
            prefixes |-> GetAttr(args, "all_prefixes", {}),
            suffixes |-> GetAttr(args, "all_suffixes", {})]
     IN  cli' = [cli EXCEPT
           !.pc = "done",
           !.passed = passed,
           !.usernames =
              usernamegen(SetToSeq(passed.first_names), SetToSeq(passed.last_names),
                          SetToSeq(passed.prefixes), SetToSeq(passed.suffixes),
                          args["num_first_name_chars"], args["num_last_name_chars"],
                          args["permit_aao"])]
  /\ UNCHANGED <<parts, gen, calls>>

CliNext == ActionCall \/ Main

----------------------------------------------------------------------------
(* What the claim about the command line is stated with. *)

\* The lines of a text: a line starts at the first character and after
\* every newline that is not the last character, and runs up to the next
\* newline or the end.
RefLines(text) ==
  {LET later == {j \in i..Len(text) : text[j] = Newline}
       stop == IF later = {} THEN Len(text) + 1
               ELSE CHOOSE j \in later : \A k \in later : j <= k
   IN  SubSeq(text, i, stop - 1) :
   i \in {i \in 1..Len(text) : i = 1 \/ text[i - 1] = Newline}}

\* A line without its leading and trailing whitespace.
RefStripped(line) ==
  LET black == {i \in 1..Len(line) : line[i] \notin Whitespace}
  IN  IF black = {} THEN << >>
      ELSE SubSeq(line, CHOOSE i \in black : \A j \in black : i <= j,
                        CHOOSE i \in black : \A j \in black : i >= j)

DestsOf(collection_name) ==
  {a.dest : a \in {b \in CollectingArguments : b.collection_name = collection_name}}

FileDests == {a.dest : a \in {b \in CollectingArguments : b.file}}

\* The occurrences on the command line read so far of the flags of a collection.
OccurrencesOf(collection_name) ==
  {i \in 1..Len(cli.argv) : cli.argv[i].dest \in DestsOf(collection_name)}

\* The union of the inline values and of the stripped lines of the files of
\* all occurrences of the flags of a collection.
RefGathered(collection_name) ==
  UNION {IF cli.argv[i].dest \in FileDests
         THEN UNION {{RefStripped(line) : line \in RefLines(text)} :
                       text \in Range(cli.argv[i].values)}
         ELSE Range(cli.argv[i].values) :
         i \in OccurrencesOf(collection_name)}

PassedAs(collection_name) ==
  CASE collection_name = "all_first_names" -> cli.passed.first_names
    [] collection_name = "all_last_names" -> cli.passed.last_names
    [] collection_name = "all_prefixes" -> cli.passed.prefixes
    [] collection_name = "all_suffixes" -> cli.passed.suffixes

\* C10: after any occurrences of the inline and the files flag of a
\* collection, in any order, the collection is the union of all inline values
\* and all stripped lines of all files given, whatever flags of other
\* collections came between, and that is what main passes to the generator;
\* prefixes and suffixes no flag names are passed empty.
C10_CollectionIsUnionOfOccurrences ==
  /\ cli.pc \in {"parsing", "done"} =>
       \A n \in CollectionNames :
         /\ OccurrencesOf(n) # {} =>
              /\ n \in DOMAIN cli.namespace
              /\ cli.namespace[n] = RefGathered(n)
         /\ OccurrencesOf(n) = {} => n \notin DOMAIN cli.namespace
  /\ cli.pc = "done" =>
       \A n \in CollectionNames :
         /\ OccurrencesOf(n) # {} => PassedAs(n) = RefGathered(n)
         /\ (OccurrencesOf(n) = {} /\ n \in {"all_prefixes", "all_suffixes"})
              => PassedAs(n) = {}

\* Files, then inline values, then files again for the first names, with a
\* prefix flag in between: everything is passed.
C10_Witness ==
  /\ cli.pc = "done"
  /\ Len(cli.argv) = 3
  /\ cli.argv[1].dest = "first_names"
  /\ cli.argv[1].values = <<<<"b", "Å">>, <<"å", "É">>>>
  /\ cli.argv[2].dest = "prefixes"
  /\ cli.argv[3].dest = "first_names_files"
  /\ Len(cli.argv[3].values) = 2
  /\ cli.passed.first_names = {<<"b", "Å">>, <<"å", "É">>, <<"B">>}
  /\ cli.passed.last_names = DefaultLastNames

----------------------------------------------------------------------------
(* The specifications. *)

\* The per-name expression on every name of the bounds.
SpecParts == PartsInit /\ [][PartsNext]_vars

\* One call of usernamegen on every input of the bounds.
SpecGen == GenInit /\ [][GenNext]_vars

\* Calls of usernamegen interleaved.
SpecCalls == CallsInit /\ [][CallsNext]_vars

\* One run of the command line.
SpecCli == CliInit /\ [][CliNext]_vars

====
